---- MODULE Spec2Model ----
(***************************************************************************)
(* Smooth pursuit eye movements (example_2_eye_movements.ipynb).           *)
(*                                                                         *)
(* The notebook declares an eye (second order mechanics, Euler), two       *)
(* motoneurons (leaky integrators with threshold, reset and refractory     *)
(* period), a retina of N leaky integrate-and-fire units, and two groups   *)
(* of event-driven synapses, and runs them on the simulator's clock.       *)
(*                                                                         *)
(* Quantities are fixed-point integers: 1.0 is ONE.  Time is counted in    *)
(* steps of the simulation clock (dt = 0.1 ms).  One action is one slot of *)
(* the clock's schedule: start, groups, thresholds, synapses, resets.      *)
(***************************************************************************)
EXTENDS Integers, Sequences, FiniteSets

VARIABLES
    t,                \* number of the current time step
    pc,               \* slot of the schedule that runs next
    rng,              \* state of the seeded random number generator
    x, velocity, x0, x_object, noise,        \* eye
    motoneurons_v, lastspike, not_refractory, motoneurons_spikes,
    N, retina_v, gs, x_neuron, retina_spikes,
    motosynapses_w,
    sensorimotor_i, sensorimotor_j, sensorimotor_w,
    M_x, M_x0, M_x_object,                   \* StateMonitor, latest sample
    S_retina_t, S_motoneurons_t,             \* SpikeMonitors, latest spike
    S_retina_count, S_motoneurons_count      \* SpikeMonitors, spike counts

eyeVars    == <<x, velocity, x0, x_object, noise>>
motoVars   == <<motoneurons_v, lastspike, not_refractory, motoneurons_spikes>>
retinaVars == <<retina_v, retina_spikes>>
staticVars == <<N, gs, x_neuron, motosynapses_w,
                sensorimotor_i, sensorimotor_j, sensorimotor_w>>
monVars    == <<M_x, M_x0, M_x_object, S_retina_t, S_motoneurons_t,
                S_retina_count, S_motoneurons_count>>
vars == <<t, pc, rng, eyeVars, motoVars, retinaVars, staticVars, monVars>>

----------------------------------------------------------------------------
(* Bounds of the exploration *)
MaxSteps == 2100          \* time steps of a seeded run
MaxN == 15                \* largest retina that is connected
MaxStepsDriven == 54      \* time steps of a run with injected retinal spikes
MaxRetinaSpikes == 4      \* retinal spikes injected in such a run

(* Program constants *)
ONE == 1000000                \* fixed-point 1.0
N_retina == 20                \* N = 20
StepsPerMs == 10              \* clock: dt = 0.1 ms
tau_muscle == 20              \* ms
tau_object == 500             \* ms
taum == 20                    \* ms
relax_ms == 50                \* alpha = (1/(50 ms))^2, beta = 1/(50 ms)
refractory == 5               \* ms
gain == 4
NeverSpiked == -100000000     \* lastspike before any spike (-1e4 s)
Seeds == {79620, 32107, 20593, 900}

Motoneurons == {0, 1}
Retina(n) == 0 .. (n - 1)

----------------------------------------------------------------------------
(* Arithmetic *)
Abs(a) == IF a >= 0 THEN a ELSE -a

\* division rounding toward zero, as the rounding of a small quotient is
\* symmetric in the sign of the numerator
Div(a, b) == IF a >= 0 THEN a \div b ELSE -((-a) \div b)

RECURSIVE SumOver(_, _)
SumOver(S, f) ==
    IF S = {} THEN 0
    ELSE LET e == CHOOSE e \in S : TRUE IN f[e] + SumOver(S \ {e}, f)

\* exp(-n) for whole n, scale ONE
ExpTable == <<1000000, 367879, 135335, 49787, 18316, 6738, 2479, 912,
              335, 123, 45, 17, 6, 2, 1>>

\* exp(-q) for q >= 0 given in thousandths; result in scale ONE
ExpNeg(qm) ==
    LET n == qm \div 1000
        f == qm % 1000
        r == IF f >= 500 THEN f - 500 ELSE f
        e == 1000 - r + (r * r) \div 2000 - (r * r * r) \div 6000000
                  + (((r * r) \div 1000) * ((r * r) \div 1000)) \div 24000
        val == IF n >= 15 THEN 0 ELSE (ExpTable[n + 1] * e) \div 1000
    IN IF f >= 500 THEN (val * 607) \div 1000 ELSE val

\* v * exp(-dt/tau) for tau = 20 ms: exp(-1/200) = 1 - 1/200 + 1/80000 - ...
Leak(v) ==
    LET k == taum * StepsPerMs
    IN v - v \div k + v \div (2 * k * k)

----------------------------------------------------------------------------
(* Random numbers: seed(...), rand() and the noise xi all draw from one     *)
(* generator whose whole sequence is fixed by the seed.  A 16-bit linear   *)
(* congruential generator stands for the simulator's generator.            *)
LCG(r) == (r * 25173 + 13849) % 65536

RECURSIVE LCGn(_, _)
LCGn(r, n) == IF n = 0 THEN r ELSE LCGn(LCG(r), n - 1)

seed(s) == s % 65536

\* rand(): uniform in [0, 1), scale ONE  (ONE/65536 = 15625/1024)
rand(r) == (r * 15625) \div 1024

\* randn(): standard normal in thousandths, from the four draws after r
randn(r) ==
    LET u(i) == (LCGn(r, i) * 1000) \div 65536
    IN Div((u(1) + u(2) + u(3) + u(4) - 2000) * 1732, 1000)

\* sqrt(dt / tau_object) in scale ONE: the weight of xi in one Euler step
SqrtDtOverTauObject == 14142

----------------------------------------------------------------------------
(* Retina: positions, receptive field, membrane equation *)

\* retina.x_neuron = '-1.0 + 2.0*i/(N-1)'
x_neuron_of(k, n) == Div((2 * k - (n - 1)) * ONE, n - 1)

\* I = gain*exp(-((x_object-x_eye-x_neuron)/width)**2), width = 2/N
I(xo, xe, xn, n) ==
    LET d  == xo - xe - xn
        um == Div(d * n, 2000)              \* d / width, in thousandths
        qm == (um * um) \div 1000
    IN gain * ExpNeg(qm)

\* dv/dt = (I-(1+gs)*v)/taum, method 'exact': over one step v relaxes to
\* I/(1+gs) with rate (1+gs)/taum
RetinaStep(v, drive, g) ==
    LET vinf == (((drive \div gain) * 1000) \div ((ONE + g) \div 1000)) * gain
        k    == taum * StepsPerMs
        a    == Abs(v - vinf)
        aG   == a + (a \div 1000) * (g \div 1000)       \* (1+gs)*|v - vinf|
        dec  == a - aG \div k + aG \div (2 * k * k)
    IN IF v >= vinf THEN vinf + dec ELSE vinf - dec

----------------------------------------------------------------------------
(* Eye: eqs_eye, method 'euler' *)
EyeStep(e, xi) ==
    LET dtDen == 1000 * StepsPerMs                       \* 1 s / dt
        aDen  == (relax_ms * relax_ms * StepsPerMs) \div 1000  \* 1/(alpha*dt)
        bDen  == relax_ms * StepsPerMs                   \* 1/(beta*dt)
    IN [x        |-> e.x + Div(e.velocity, dtDen),
        velocity |-> e.velocity + Div(e.x0 - e.x, aDen) - Div(e.velocity, bDen),
        x0       |-> e.x0 - Div(e.x0, tau_muscle * StepsPerMs),
        x_object |-> e.x_object + Div(e.noise - e.x_object, tau_object * StepsPerMs),
        noise    |-> e.noise - Div(e.noise, tau_object * StepsPerMs)
                       + Div(SqrtDtOverTauObject * xi, 1000)]

----------------------------------------------------------------------------
(* Motoneurons: 'dv/dt = -v/taum', threshold 'v>1', reset 'v=0',          *)
(* refractory 5 ms                                                         *)
\* 'dv/dt = v/taum', the leak with the wrong sign
MotoneuronStep_Growing(v) == v + v \div (taum * StepsPerMs)

MotoneuronStep(v) == Leak(v)

\* the refractory period taken as a number of steps
RefractorySteps_Unconverted == refractory

RefractorySteps == refractory * StepsPerMs

\* the state updater refreshes not_refractory before integrating
NotRefractory(now, last) == now - last >= RefractorySteps

\* threshold = 'v>=1'
Threshold_AtOrAbove(v) == v >= ONE

\* threshold = 'v>1'
Threshold(v) == v > ONE

\* reset = 'v=0'
Reset(v) == 0

----------------------------------------------------------------------------
(* Synapses *)

\* the two weights in the wrong order
MotoW_Swapped(i) == IF i = 0 THEN ONE \div 2 ELSE -(ONE \div 2)

\* motosynapses.w = [-0.5, 0.5]
MotoW(i) == IF i = 0 THEN -(ONE \div 2) ELSE ONE \div 2

\* 'int(x_neuron_pre >= 0)'
ConnectJ_NonNegative(xn) == IF xn >= 0 THEN 1 ELSE 0

\* sensorimotor_synapses.connect(j = 'int(x_neuron_pre > 0)')
ConnectJ(xn) == IF xn > 0 THEN 1 ELSE 0

\* '20*x_neuron_pre/N_pre', without abs
SensorimotorW_Signed(xn, n) == Div(20 * xn, n)

\* '20*abs(x_neuron_pre)', without the division by N_pre
SensorimotorW_Unscaled(xn, n) == 20 * Abs(xn)

\* sensorimotor_synapses.w = '20*abs(x_neuron_pre)/N_pre'
SensorimotorW(xn, n) == (20 * Abs(xn)) \div n

\* on_pre = 'v+=w': total delivered to motoneuron j by the retinal spikes
Delivered(j, spk, si, sj, sw) ==
    LET S == {s \in DOMAIN si : si[s] \in spk /\ sj[s] = j}
    IN SumOver(S, sw)

\* on_pre = 'x0+=w': total added to x0 by the motoneuron spikes
Twitch(spk, w) == SumOver(spk, w)

----------------------------------------------------------------------------
(* State after construction *)

Eye == [x |-> x, velocity |-> velocity, x0 |-> x0, x_object |-> x_object,
        noise |-> noise]

\* the static part of the network for a retina of n units, with the
\* synapses listed in the order of their presynaptic index
StaticInit(n) ==
    /\ N = n
    /\ x_neuron = [k \in Retina(n) |-> x_neuron_of(k, n)]
    /\ gs = [k \in Retina(n) |-> 0]
    /\ motosynapses_w = [i \in Motoneurons |-> MotoW(i)]
    /\ sensorimotor_i = [s \in 1 .. n |-> s - 1]
    /\ sensorimotor_j = [s \in 1 .. n |-> ConnectJ(x_neuron_of(s - 1, n))]
    /\ sensorimotor_w = [s \in 1 .. n |-> SensorimotorW(x_neuron_of(s - 1, n), n)]

DynamicInit(n, r0, quiet) ==
    /\ t = 0
    /\ rng = LCGn(r0, n)
    /\ x = 0 /\ velocity = 0 /\ x0 = 0 /\ x_object = 0 /\ noise = 0
    /\ motoneurons_v = [i \in Motoneurons |-> 0]
    /\ lastspike = [i \in Motoneurons |-> NeverSpiked]
    /\ not_refractory = [i \in Motoneurons |-> TRUE]
    /\ motoneurons_spikes = {}
    \* retina.v = 'rand()'
    /\ retina_v = [k \in Retina(n) |->
                      IF quiet THEN 0 ELSE rand(LCGn(r0, k + 1))]
    /\ retina_spikes = {}
    /\ M_x = 0 /\ M_x0 = 0 /\ M_x_object = 0
    /\ S_retina_t = [k \in Retina(n) |-> NeverSpiked]
    /\ S_motoneurons_t = [i \in Motoneurons |-> NeverSpiked]
    /\ S_retina_count = [k \in Retina(n) |-> 0]
    /\ S_motoneurons_count = [i \in Motoneurons |-> 0]

Init ==
    \E s \in Seeds :
        /\ StaticInit(N_retina)
        /\ DynamicInit(N_retina, seed(s), FALSE)
        /\ pc = "start"

----------------------------------------------------------------------------
(* The schedule of one time step *)

\* the synaptic pathways scheduled before the thresholders
NextSlot_SynapsesFirst(slot) ==
    CASE slot = "start"      -> "groups"
      [] slot = "groups"     -> "synapses"
      [] slot = "synapses"   -> "thresholds"
      [] slot = "thresholds" -> "resets"
      [] slot = "resets"     -> "start"

NextSlot(slot) ==
    CASE slot = "start"      -> "groups"
      [] slot = "groups"     -> "thresholds"
      [] slot = "thresholds" -> "synapses"
      [] slot = "synapses"   -> "resets"
      [] slot = "resets"     -> "start"

\* slot 'start': M = StateMonitor(eye, ('x', 'x0', 'x_object'))
StateMonitorRecord ==
    /\ pc = "start"
    /\ t < MaxSteps
    /\ M_x' = x /\ M_x0' = x0 /\ M_x_object' = x_object
    /\ pc' = NextSlot(pc)
    /\ UNCHANGED <<t, rng, eyeVars, motoVars, retinaVars, staticVars,
                   S_retina_t, S_motoneurons_t, S_retina_count,
                   S_motoneurons_count>>

\* slot 'groups': the state updaters of motoneurons, retina and eye; xi is
\* the noise sample of the step (thousandths) and r the generator after it
StateUpdate(xi, r) ==
    /\ pc = "groups"
    /\ not_refractory' = [i \in Motoneurons |-> NotRefractory(t, lastspike[i])]
    /\ motoneurons_v' = [i \in Motoneurons |-> MotoneuronStep(motoneurons_v[i])]
    /\ retina_v' = [k \in Retina(N) |->
                      RetinaStep(retina_v[k],
                                 I(x_object, x, x_neuron[k], N), gs[k])]
    /\ LET e == EyeStep(Eye, xi)
       IN /\ x' = e.x /\ velocity' = e.velocity /\ x0' = e.x0
          /\ x_object' = e.x_object /\ noise' = e.noise
    /\ rng' = r
    /\ pc' = NextSlot(pc)
    /\ UNCHANGED <<t, lastspike, motoneurons_spikes, retina_spikes,
                   staticVars, monVars>>

Groups == StateUpdate(randn(rng), LCGn(rng, 4))

\* slot 'thresholds': the thresholders, then the SpikeMonitors; extra is
\* a set of retinal units made to spike by the environment (none in a run
\* of the notebook)
ThresholdsWith(extra) ==
    /\ pc = "thresholds"
    /\ LET ms == {i \in Motoneurons :
                     Threshold(motoneurons_v[i]) /\ not_refractory[i]}
           rs == {k \in Retina(N) : Threshold(retina_v[k])} \cup extra
       IN /\ motoneurons_spikes' = ms
          /\ retina_spikes' = rs
          /\ lastspike' = [i \in Motoneurons |->
                              IF i \in ms THEN t ELSE lastspike[i]]
          /\ not_refractory' = [i \in Motoneurons |->
                              IF i \in ms THEN FALSE ELSE not_refractory[i]]
          /\ S_retina_t' = [k \in Retina(N) |->
                              IF k \in rs THEN t ELSE S_retina_t[k]]
          /\ S_motoneurons_t' = [i \in Motoneurons |->
                              IF i \in ms THEN t ELSE S_motoneurons_t[i]]
          /\ S_retina_count' = [k \in Retina(N) |->
                              IF k \in rs THEN S_retina_count[k] + 1
                              ELSE S_retina_count[k]]
          /\ S_motoneurons_count' = [i \in Motoneurons |->
                              IF i \in ms THEN S_motoneurons_count[i] + 1
                              ELSE S_motoneurons_count[i]]
    /\ pc' = NextSlot(pc)
    /\ UNCHANGED <<t, rng, eyeVars, motoneurons_v, retina_v, staticVars,
                   M_x, M_x0, M_x_object>>

Thresholds == ThresholdsWith({})

\* the sensorimotor pathway with on_pre = 'gs_pre += w': the conductance of
\* the spiking retinal unit is driven, not the motoneuron
SynapsesPre_DrivesGs ==
    /\ pc = "synapses"
    /\ gs' = [k \in Retina(N) |->
                 IF k \in retina_spikes
                 THEN gs[k] + SensorimotorW(x_neuron[k], N) ELSE gs[k]]
    /\ x0' = x0 + Twitch(motoneurons_spikes, motosynapses_w)
    /\ pc' = NextSlot(pc)
    /\ UNCHANGED <<t, rng, x, velocity, x_object, noise, motoVars, retinaVars,
                   N, x_neuron, motosynapses_w, sensorimotor_i,
                   sensorimotor_j, sensorimotor_w, monVars>>

\* slot 'synapses': the pre pathways of both Synapses objects, no delay
SynapsesPre ==
    /\ pc = "synapses"
    /\ motoneurons_v' = [j \in Motoneurons |->
           motoneurons_v[j] + Delivered(j, retina_spikes, sensorimotor_i,
                                        sensorimotor_j, sensorimotor_w)]
    /\ x0' = x0 + Twitch(motoneurons_spikes, motosynapses_w)
    /\ pc' = NextSlot(pc)
    /\ UNCHANGED <<t, rng, x, velocity, x_object, noise, lastspike,
                   not_refractory, motoneurons_spikes, retinaVars,
                   staticVars, monVars>>

\* slot 'resets': the resetters; the clock then advances
Resets ==
    /\ pc = "resets"
    /\ motoneurons_v' = [i \in Motoneurons |->
           IF i \in motoneurons_spikes THEN Reset(motoneurons_v[i])
           ELSE motoneurons_v[i]]
    /\ retina_v' = [k \in Retina(N) |->
           IF k \in retina_spikes THEN Reset(retina_v[k]) ELSE retina_v[k]]
    /\ t' = t + 1
    /\ pc' = NextSlot(pc)
    /\ UNCHANGED <<rng, eyeVars, lastspike, not_refractory,
                   motoneurons_spikes, retina_spikes, staticVars, monVars>>

Next ==
    \/ StateMonitorRecord
    \/ Groups
    \/ Thresholds
    \/ SynapsesPre
    \/ Resets

Spec == Init /\ [][Next]_vars

----------------------------------------------------------------------------
(* The run with the stochastic drive switched off: xi = 0 in every step    *)
(* and every potential starts at 0.                                        *)
InitQuiet ==
    /\ StaticInit(N_retina)
    /\ DynamicInit(N_retina, seed(79620), TRUE)
    /\ pc = "start"

GroupsQuiet == StateUpdate(0, rng)

NextQuiet ==
    \/ StateMonitorRecord
    \/ GroupsQuiet
    \/ Thresholds
    \/ SynapsesPre
    \/ Resets

SpecQuiet == InitQuiet /\ [][NextQuiet]_vars

----------------------------------------------------------------------------
(* The motoneurons under an arbitrary retinal input: the run starts at     *)
(* rest with xi = 0, and in any step the environment may make a volley of  *)
(* eccentric retinal units spike, whatever their potentials.  Every run of *)
(* the notebook delivers some such sequence of retinal spikes; here the    *)
(* sequence is free, up to MaxRetinaSpikes spikes in MaxStepsDriven steps. *)
Volleys == {{18, 19}}

ThresholdsDriven ==
    \E extra \in Volleys :
        /\ SumOver(Retina(N), S_retina_count) + Cardinality(extra)
               <= MaxRetinaSpikes
        /\ ThresholdsWith(extra)

RecordDriven == t < MaxStepsDriven /\ StateMonitorRecord

NextDriven ==
    \/ RecordDriven
    \/ GroupsQuiet
    \/ Thresholds
    \/ ThresholdsDriven
    \/ SynapsesPre
    \/ Resets

SpecDriven == InitQuiet /\ [][NextDriven]_vars

----------------------------------------------------------------------------
(* Construction of the sensorimotor synapses for a retina of any size:     *)
(* connect() visits the presynaptic units in order, then w is assigned.    *)
InitConnect ==
    \E n \in 2 .. MaxN :
        /\ N = n
        /\ x_neuron = [k \in Retina(n) |-> x_neuron_of(k, n)]
        /\ gs = [k \in Retina(n) |-> 0]
        /\ motosynapses_w = [i \in Motoneurons |-> MotoW(i)]
        /\ sensorimotor_i = <<>>
        /\ sensorimotor_j = <<>>
        /\ sensorimotor_w = <<>>
        /\ DynamicInit(n, seed(79620), FALSE)
        /\ pc = "connect"

\* one presynaptic unit of connect(j = 'int(x_neuron_pre > 0)')
Connect ==
    /\ pc = "connect"
    /\ Len(sensorimotor_i) < N
    /\ LET i == Len(sensorimotor_i)
           j == ConnectJ(x_neuron[i])
       IN /\ sensorimotor_i' = IF j \in Motoneurons
                               THEN Append(sensorimotor_i, i)
                               ELSE sensorimotor_i
          /\ sensorimotor_j' = IF j \in Motoneurons
                               THEN Append(sensorimotor_j, j)
                               ELSE sensorimotor_j
    /\ UNCHANGED <<t, pc, rng, eyeVars, motoVars, retinaVars, N, gs,
                   x_neuron, motosynapses_w, sensorimotor_w, monVars>>

\* sensorimotor_synapses.w = '20*abs(x_neuron_pre)/N_pre'
AssignW ==
    /\ pc = "connect"
    /\ Len(sensorimotor_i) = N
    /\ sensorimotor_w' = [s \in DOMAIN sensorimotor_i |->
                             SensorimotorW(x_neuron[sensorimotor_i[s]], N)]
    /\ pc' = "built"
    /\ UNCHANGED <<t, rng, eyeVars, motoVars, retinaVars, N, gs, x_neuron,
                   motosynapses_w, sensorimotor_i, sensorimotor_j, monVars>>

NextConnect == Connect \/ AssignW

SpecConnect == InitConnect /\ [][NextConnect]_vars

----------------------------------------------------------------------------
(* Properties *)

\* C1: every motoneuron spike from index i adds exactly w_i to x0
\* (w_0 = -0.5, w_1 = +0.5), applied in the synapses slot; x0 has no other
\* jump: outside that slot it changes only in the integration slot, by the
\* Euler step of dx0/dt = -x0/tau_muscle.
C1_TwitchOnly ==
    [][ /\ pc = "synapses" =>
              x0' = x0 + (IF 0 \in motoneurons_spikes THEN -500000 ELSE 0)
                       + (IF 1 \in motoneurons_spikes THEN 500000 ELSE 0)
        /\ pc = "groups" => x0' = x0 - Div(x0, 200)
        /\ pc \notin {"synapses", "groups"} => x0' = x0 ]_vars

\* a spike of the right motoneuron has just been applied to x0
C1_Witness ==
    /\ pc = "resets"
    /\ 1 \in motoneurons_spikes
    /\ x0 > 0

\* C2 as stated: after construction, for every N >= 2 each retinal unit k
\* has exactly one synapse, N in total, whose target is motoneuron 0 when
\* x_neuron_k = -1 + 2k/(N-1) is negative and motoneuron 1 when x_neuron_k
\* is positive or zero.
C2_ZeroGoesRight ==
    pc = "built" =>
        /\ Len(sensorimotor_i) = N
        /\ Len(sensorimotor_j) = N
        /\ \A k \in Retina(N) :
              /\ Cardinality({s \in 1 .. Len(sensorimotor_i) :
                                 sensorimotor_i[s] = k}) = 1
              /\ \A s \in 1 .. Len(sensorimotor_i) :
                    sensorimotor_i[s] = k =>
                        sensorimotor_j[s] = IF 2 * k < N - 1 THEN 0 ELSE 1

\* C2 amended: as above, but the target is motoneuron 1 only when
\* x_neuron_k is strictly positive; a unit at exactly 0 (the middle unit of
\* an odd-sized retina) targets motoneuron 0.
C2_OneTargetPerUnit ==
    pc = "built" =>
        /\ Len(sensorimotor_i) = N
        /\ Len(sensorimotor_j) = N
        /\ \A k \in Retina(N) :
              /\ Cardinality({s \in 1 .. Len(sensorimotor_i) :
                                 sensorimotor_i[s] = k}) = 1
              /\ \A s \in 1 .. Len(sensorimotor_i) :
                    sensorimotor_i[s] = k =>
                        sensorimotor_j[s] = IF 2 * k > N - 1 THEN 1 ELSE 0

\* a retina with a unit at exactly 0 has been connected
C2_Witness ==
    /\ pc = "built"
    /\ \E k \in Retina(N) : 2 * k = N - 1 /\ x_neuron[k] = 0

\* C6: with xi held at 0 and every variable starting at 0, x_object stays 0
\* and no motoneuron ever spikes.
C6_Quiescent ==
    /\ x_object = 0
    /\ noise = 0
    /\ motoneurons_spikes = {}
    /\ \A i \in Motoneurons : S_motoneurons_count[i] = 0

\* retinal spikes have been delivered to both motoneurons, which stay at rest
C6_Witness ==
    /\ pc = "resets"
    /\ retina_spikes # {}
    /\ \A i \in Motoneurons : motoneurons_v[i] > 0
    /\ t > 100

\* C10: no step changes the static configuration: positions x_neuron_k, the
\* muscle and sensorimotor synapses, their weights [-0.5, +0.5] and
\* 20*|x_neuron_k|/N, and gs = 0 for every retinal unit.
C10_StaticConfiguration ==
    /\ N = 20
    /\ x_neuron = [k \in 0 .. 19 |-> Div((2 * k - 19) * ONE, 19)]
    /\ gs = [k \in 0 .. 19 |-> 0]
    /\ motosynapses_w = [i \in {0, 1} |-> IF i = 0 THEN -500000 ELSE 500000]
    /\ sensorimotor_i = [s \in 1 .. 20 |-> s - 1]
    /\ sensorimotor_j = [s \in 1 .. 20 |-> IF s - 1 >= 10 THEN 1 ELSE 0]
    /\ sensorimotor_w = [s \in 1 .. 20 |->
                            (20 * Abs(Div((2 * (s - 1) - 19) * ONE, 19))) \div 20]

\* every kind of step has run: integration, detection of retinal and
\* motoneuron spikes, synaptic events, resets and recording
C10_Witness ==
    /\ pc = "start"
    /\ t > 0
    /\ \E i \in Motoneurons : S_motoneurons_count[i] > 0
    /\ \E k \in Retina(N) : S_retina_t[k] # NeverSpiked

\* a unit that crossed the threshold in this step and has not been reset yet
AwaitingReset(u, v, spikes) ==
    \/ pc = "thresholds" /\ v > ONE
    \/ pc \in {"synapses", "resets"} /\ u \in spikes

\* C3 as stated: every motoneuron potential and every retinal potential
\* satisfies 0 <= v <= 1, except between a threshold crossing and its reset.
C3_AllPotentialsBounded ==
    /\ \A i \in Motoneurons :
          \/ 0 <= motoneurons_v[i] /\ motoneurons_v[i] <= ONE
          \/ AwaitingReset(i, motoneurons_v[i], motoneurons_spikes)
    /\ \A k \in Retina(N) :
          \/ 0 <= retina_v[k] /\ retina_v[k] <= ONE
          \/ AwaitingReset(k, retina_v[k], retina_spikes)

\* C3 amended: every retinal potential satisfies 0 <= v <= 1 except between
\* a threshold crossing and its reset.  Every motoneuron potential satisfies
\* v >= 0, and v <= 1 right after spike detection if the motoneuron is not
\* refractory; a delivery 'v += w' may lift it above 1, where it stays until
\* the next detection, or through the refractory window.
C3_RetinaBoundedMotoneuronsNonNegative ==
    /\ \A k \in Retina(N) :
          \/ 0 <= retina_v[k] /\ retina_v[k] <= ONE
          \/ AwaitingReset(k, retina_v[k], retina_spikes)
    /\ \A i \in Motoneurons :
          /\ motoneurons_v[i] >= 0
          /\ (pc = "synapses" /\ not_refractory[i]) => motoneurons_v[i] <= ONE

\* a step begins with a motoneuron above 1 that a retinal spike put there
C3_Witness ==
    /\ pc = "start"
    /\ \E i \in Motoneurons : motoneurons_v[i] > ONE
    /\ \E k \in Retina(N) : S_retina_t[k] = t - 1

\* C4: two spikes of the same motoneuron are at least 5 ms (50 steps) apart,
\* whatever the retina delivers in between.
C4_RefractorySeparation ==
    [][ pc = "thresholds" =>
          \A i \in Motoneurons :
              i \in motoneurons_spikes' =>
                  \/ S_motoneurons_t[i] = NeverSpiked
                  \/ t - S_motoneurons_t[i] >= 50 ]_vars

\* a motoneuron driven above threshold inside its refractory window has
\* fired a second time
C4_Witness ==
    /\ pc = "synapses"
    /\ 1 \in motoneurons_spikes
    /\ S_motoneurons_count[1] = 2

\* the 5 ms window that follows a motoneuron's spike and reset
InWindow(i) ==
    /\ S_motoneurons_t[i] # NeverSpiked
    /\ t > S_motoneurons_t[i]
    /\ t - S_motoneurons_t[i] < 50

\* C7 as stated: inside the refractory window a motoneuron's potential is 0,
\* whatever retinal spikes are delivered to it.
C7_HeldAtZero ==
    \A i \in Motoneurons : InWindow(i) => motoneurons_v[i] = 0

\* what the retinal spikes of this step deliver to motoneuron i: the unit at
\* x_neuron_k > 0 drives motoneuron 1, the others motoneuron 0, with weight
\* 20*|x_neuron_k|/N
RetinalInput(i) ==
    LET side(k) == IF 2 * k > N - 1 THEN 1 ELSE 0
        w == [k \in Retina(N) |-> (20 * Abs(x_neuron[k])) \div N]
    IN SumOver({k \in retina_spikes : side(k) = i}, w)

\* C7 amended: the potential is reset to 0 at the spike and the motoneuron
\* does not fire inside the window, but v is not held at 0 there: every
\* retinal spike delivered in the window adds its weight to v, and between
\* deliveries v only leaks toward 0.
C7_ResetThenIntegrates ==
    [][ \A i \in Motoneurons :
          /\ (pc = "resets" /\ i \in motoneurons_spikes) => motoneurons_v'[i] = 0
          /\ InWindow(i) =>
                /\ pc = "thresholds" => i \notin motoneurons_spikes'
                /\ pc = "synapses" =>
                      motoneurons_v'[i] = motoneurons_v[i] + RetinalInput(i)
                /\ pc \notin {"synapses", "resets"} =>
                      /\ 0 <= motoneurons_v'[i]
                      /\ motoneurons_v'[i] <= motoneurons_v[i]
                /\ pc = "resets" => motoneurons_v'[i] = motoneurons_v[i] ]_vars

\* a retinal spike has been delivered to a motoneuron inside its window
C7_Witness ==
    \E i \in Motoneurons : InWindow(i) /\ motoneurons_v[i] > 0

\* C8: within a step the order is integrate, detect, apply, reset.  The
\* spikes whose effects are applied in the synapses slot of step t are
\* exactly those the monitors recorded in step t; x0 += w and v += w are
\* applied there, before the clock advances, and nowhere else, so the
\* integration of step t+1 starts from the values that include them.
C8_DetectThenApply ==
    [][ /\ pc = "start" => pc' = "groups" /\ t' = t
        /\ pc = "groups" =>
              /\ pc' = "thresholds" /\ t' = t
              /\ x0' = x0 - Div(x0, 200)
              /\ \A i \in Motoneurons :
                    motoneurons_v'[i] = motoneurons_v[i]
                        - motoneurons_v[i] \div 200 + motoneurons_v[i] \div 80000
        /\ pc = "thresholds" =>
              /\ pc' = "synapses" /\ t' = t
              /\ x0' = x0 /\ motoneurons_v' = motoneurons_v
        /\ pc = "synapses" =>
              /\ pc' = "resets" /\ t' = t
              /\ motoneurons_spikes = {i \in Motoneurons : S_motoneurons_t[i] = t}
              /\ retina_spikes = {k \in Retina(N) : S_retina_t[k] = t}
              /\ x0' = x0 + (IF 0 \in motoneurons_spikes THEN -500000 ELSE 0)
                          + (IF 1 \in motoneurons_spikes THEN 500000 ELSE 0)
              /\ \A i \in Motoneurons :
                    motoneurons_v'[i] = motoneurons_v[i] + RetinalInput(i)
        /\ pc = "resets" =>
              /\ pc' = "start" /\ t' = t + 1
              /\ x0' = x0
              /\ \A i \in Motoneurons :
                    motoneurons_v'[i] \in {0, motoneurons_v[i]} ]_vars

\* the effect of a motoneuron spike of this step has been applied to x0,
\* after retinal spikes of earlier steps drove the motoneuron to threshold
C8_Witness ==
    /\ pc = "resets"
    /\ \E i \in motoneurons_spikes : S_motoneurons_t[i] = t
    /\ x0 # 0
    /\ \E k \in Retina(N) : S_retina_t[k] # NeverSpiked

\* C9 as stated: a unit fires in a step exactly when its potential at spike
\* detection satisfies v >= 1.0 (a motoneuron: and 5 ms have passed since
\* its last spike), so a unit at exactly 1.0 fires; a unit that fired is
\* reset to 0.
C9_FiresAtOrAboveOne ==
    [][ /\ pc = "thresholds" =>
              /\ \A k \in Retina(N) :
                    k \in retina_spikes' <=> retina_v[k] >= ONE
              /\ \A i \in Motoneurons :
                    i \in motoneurons_spikes' <=>
                        /\ motoneurons_v[i] >= ONE
                        /\ \/ S_motoneurons_t[i] = NeverSpiked
                           \/ t - S_motoneurons_t[i] >= 50
        /\ pc = "resets" =>
              /\ \A k \in Retina(N) :
                    retina_v'[k] = IF k \in retina_spikes THEN 0 ELSE retina_v[k]
              /\ \A i \in Motoneurons :
                    motoneurons_v'[i] = IF i \in motoneurons_spikes THEN 0
                                        ELSE motoneurons_v[i] ]_vars

\* C9 amended: a unit fires in a step exactly when its potential at spike
\* detection satisfies v > 1.0 (a motoneuron: and 5 ms have passed since its
\* last spike); a unit at exactly 1.0 does not fire and is not reset.  A
\* unit that fired is reset to 0; a retinal unit can fire again in the next
\* step, a motoneuron only after its 5 ms dead time.
C9_FiresAboveOne ==
    [][ /\ pc = "thresholds" =>
              /\ \A k \in Retina(N) :
                    k \in retina_spikes' <=> retina_v[k] > ONE
              /\ \A i \in Motoneurons :
                    i \in motoneurons_spikes' <=>
                        /\ motoneurons_v[i] > ONE
                        /\ \/ S_motoneurons_t[i] = NeverSpiked
                           \/ t - S_motoneurons_t[i] >= 50
        /\ pc = "resets" =>
              /\ \A k \in Retina(N) :
                    retina_v'[k] = IF k \in retina_spikes THEN 0 ELSE retina_v[k]
              /\ \A i \in Motoneurons :
                    motoneurons_v'[i] = IF i \in motoneurons_spikes THEN 0
                                        ELSE motoneurons_v[i] ]_vars

\* spike detection has just passed over a retinal unit at exactly 1.0
C9_Witness ==
    /\ pc = "synapses"
    /\ \E k \in Retina(N) : retina_v[k] = ONE /\ k \notin retina_spikes

====
